---------------------------- MODULE Spec2Model ----------------------------
(***************************************************************************)
(* A model of rom-loader-cli: the emulator configuration, the extension    *)
(* map, the ROM scanner, the dispatch function launch_rom and the          *)
(* interactive selection loop of main.                                     *)
(*                                                                         *)
(* Strings and paths are sequences of one-character strings, so that       *)
(* lowercasing, substring search and the decomposition of a path into      *)
(* parent directory, file name, stem and extension are computed, not       *)
(* assumed.  The one-character string BadByte stands for a byte that is    *)
(* not valid UTF-8.  An Option is a set with at most one element.          *)
(***************************************************************************)
EXTENDS Naturals, Sequences, FiniteSets

VARIABLES
    pc,                     \* where the program is: see PcValues
    emulators,              \* EmulatorConfig.emulators
    extension_to_emulator,  \* lowercase extension -> index into emulators
    roms,                   \* the catalog: a sequence of ROM paths
    input,                  \* Option: the line the last read_line attempt was given
    selected,               \* Option: [rom |-> 1-based index, emu |-> Option index]
    call,                   \* Option: the arguments of the launch_rom call last made
    args,                   \* Option: the argument vector given to Command::spawn
    spawned,                \* processes started by the launch_rom call last made
    running,                \* emulator processes currently running
    result,                 \* Option: what the launch_rom call last made returned
    warnings,               \* warnings launch_rom printed in the call last made
    exit                    \* Option: what wait_with_output returned, if not an error

vars == <<pc, emulators, extension_to_emulator, roms, input, selected, call,
          args, spawned, running, result, warnings, exit>>

None == {}

Some(v) == {v}

Get(o) == CHOOSE v \in o : TRUE

-----------------------------------------------------------------------------
(* Bounds of the model. *)

MaxEmus == 2

MaxFiles == 2

MaxPathLen == 4

-----------------------------------------------------------------------------
(* str: to_lowercase, contains, eq_ignore_ascii_case, trim, parse::<usize> *)

UpperCase == <<"A","B","C","D","E","F","G","H","I","J","K","L","M",
               "N","O","P","Q","R","S","T","U","V","W","X","Y","Z">>

LowerCase == <<"a","b","c","d","e","f","g","h","i","j","k","l","m",
               "n","o","p","q","r","s","t","u","v","w","x","y","z">>

BadByte == "\\xFF"

LowerOf ==
    [c \in {UpperCase[i] : i \in DOMAIN UpperCase} |->
        LowerCase[CHOOSE i \in DOMAIN UpperCase : UpperCase[i] = c]]

LowerChar(c) == IF c \in DOMAIN LowerOf THEN LowerOf[c] ELSE c

to_lowercase(s) == [i \in 1..Len(s) |-> LowerChar(s[i])]

eq_ignore_ascii_case(a, b) == to_lowercase(a) = to_lowercase(b)

contains(hay, needle) ==
    \E i \in 0..(Len(hay) - Len(needle)) :
        Len(hay) >= Len(needle) /\ SubSeq(hay, i + 1, i + Len(needle)) = needle

IsUtf8(s) == \A i \in 1..Len(s) : s[i] # BadByte

-----------------------------------------------------------------------------
(* std::path::Path on Unix: components, parent, file_name, file_stem,      *)
(* extension.                                                              *)

has_root(p) == Len(p) >= 1 /\ p[1] = "/"

\* The first index of the run of non-separator characters that ends at n.
RECURSIVE RunStart(_, _)
RunStart(p, n) ==
    IF n = 1 \/ p[n - 1] = "/" THEN n ELSE RunStart(p, n - 1)

\* Components::next_back on p[1..n]: <<first, last>> of the last component
\* that is not the root, <<0, 0>> when there is none.  Separators are
\* skipped, and so is a "." unless the path starts with it.
RECURSIVE LastComponent(_, _)
LastComponent(p, n) ==
    IF n = 0 THEN <<0, 0>>
    ELSE IF p[n] = "/" THEN LastComponent(p, n - 1)
    ELSE LET s == RunStart(p, n) IN
         IF s = n /\ p[n] = "." /\ s # 1
         THEN LastComponent(p, s - 1)
         ELSE <<s, n>>

IsNormal(s) == s # <<".">> /\ s # <<".", ".">>

parent(p) ==
    LET last == LastComponent(p, Len(p)) IN
    IF last = <<0, 0>> THEN None
    ELSE LET rest == LastComponent(p, last[1] - 1) IN
         IF rest = <<0, 0>>
         THEN Some(IF has_root(p) THEN <<"/">> ELSE <<>>)
         ELSE Some(SubSeq(p, 1, rest[2]))

file_name(p) ==
    LET last == LastComponent(p, Len(p)) IN
    IF last = <<0, 0>> THEN None
    ELSE LET s == SubSeq(p, last[1], last[2]) IN
         IF IsNormal(s) THEN Some(s) ELSE None

Dots(s) == {i \in 1..Len(s) : s[i] = "."}

LastDot(s) == CHOOSE i \in Dots(s) : \A j \in Dots(s) : j <= i

\* rsplit_file_at_dot: <<before, after>> the last dot of a file name.
rsplit_file_at_dot(s) ==
    IF Dots(s) = {} THEN <<None, Some(s)>>
    ELSE IF LastDot(s) = 1 THEN <<Some(s), None>>
    ELSE <<Some(SubSeq(s, 1, LastDot(s) - 1)),
           Some(SubSeq(s, LastDot(s) + 1, Len(s)))>>

file_stem(p) ==
    IF file_name(p) = None THEN None
    ELSE LET ba == rsplit_file_at_dot(Get(file_name(p))) IN
         IF ba[1] # None THEN ba[1] ELSE ba[2]

extension(p) ==
    IF file_name(p) = None THEN None
    ELSE LET ba == rsplit_file_at_dot(Get(file_name(p))) IN
         IF ba[1] # None THEN ba[2] ELSE None

\* OsStr::to_str: None unless the text is valid UTF-8.
to_str(o) == IF o # None /\ IsUtf8(Get(o)) THEN o ELSE None


Whitespace == {" ", "\n", "\t", "\r"}

RECURSIVE trim_start(_)
trim_start(s) ==
    IF s # <<>> /\ Head(s) \in Whitespace THEN trim_start(Tail(s)) ELSE s

RECURSIVE trim_end(_)
trim_end(s) ==
    IF s # <<>> /\ s[Len(s)] \in Whitespace
    THEN trim_end(SubSeq(s, 1, Len(s) - 1))
    ELSE s

trim(s) == trim_end(trim_start(s))

Digits == <<"0","1","2","3","4","5","6","7","8","9">>

IsDigit(c) == \E i \in DOMAIN Digits : Digits[i] = c

DigitValue(c) == (CHOOSE i \in DOMAIN Digits : Digits[i] = c) - 1

RECURSIVE Decimal(_)
Decimal(s) ==
    IF s = <<>> THEN 0
    ELSE 10 * Decimal(SubSeq(s, 1, Len(s) - 1)) + DigitValue(s[Len(s)])

\* str::parse::<usize>: an optional "+", then one or more decimal digits.
parse_usize(s) ==
    LET d == IF s # <<>> /\ Head(s) = "+" THEN Tail(s) ELSE s IN
    IF d # <<>> /\ \A i \in 1..Len(d) : IsDigit(d[i])
    THEN Some(Decimal(d))
    ELSE None

-----------------------------------------------------------------------------
(* The file system as the program sees it: what a path is when looked at. *)

Kinds == {"missing", "dir", "file"}

exists(kind) == kind # "missing"

is_file(kind) == kind = "file"

is_dir(kind) == kind = "dir"

-----------------------------------------------------------------------------
(* rom_scanner.rs *)

SUPPORTED_ROM_EXTENSIONS ==
    << <<"n","e","s">>, <<"s","n","e","s">>, <<"s","m","c">>, <<"s","f","c">>,
       <<"g","b">>, <<"g","b","a">>, <<"n","6","4">>, <<"p","s","1">>,
       <<"m","d">>, <<"g","e","n">>, <<"b","i","n">>, <<"z","i","p">>,
       <<"7","z">> >>

\* Rom::get_extension
get_extension(path) == to_str(extension(path))

IsSupportedRom(path) ==
    /\ get_extension(path) # None
    /\ \E i \in DOMAIN SUPPORTED_ROM_EXTENSIONS :
           eq_ignore_ascii_case(SUPPORTED_ROM_EXTENSIONS[i],
                                Get(get_extension(path)))

\* RomScanner::scan_roms on a base directory of kind base_kind whose walk
\* yields the regular files `files` in that order.
scan_roms(base_kind, files) ==
    IF ~exists(base_kind) THEN [err |-> Some("NotFound"), roms |-> <<>>]
    ELSE IF ~is_dir(base_kind) THEN [err |-> Some("InvalidInput"), roms |-> <<>>]
    ELSE [err |-> None, roms |-> SelectSeq(files, IsSupportedRom)]

-----------------------------------------------------------------------------
(* main.rs: the extension map *)

EmptyMap == [x \in {} |-> 0]

\* HashMap::insert(k, v), which replaces the value of a key already present.
insert(m, k, v) ==
    [x \in DOMAIN m \cup {k} |-> IF x = k THEN v ELSE m[x]]

\* HashMap::entry(k).or_insert(v)
or_insert(m, k, v) ==
    IF k \in DOMAIN m THEN m
    ELSE [x \in DOMAIN m \cup {k} |-> IF x = k THEN v ELSE m[x]]

RECURSIVE InsertExtensions(_, _, _, _)
InsertExtensions(m, exts, j, i) ==
    IF j > Len(exts) THEN m
    ELSE InsertExtensions(or_insert(m, to_lowercase(exts[j]), i), exts, j + 1, i)

RECURSIVE BuildFrom(_, _, _)
BuildFrom(m, emus, i) ==
    IF i > Len(emus) THEN m
    ELSE BuildFrom(InsertExtensions(m, emus[i].extensions, 1, i), emus, i + 1)

BuildExtensionMap(emus) == BuildFrom(EmptyMap, emus, 1)

RomExtension_CaseKept(path) ==
    IF get_extension(path) # None THEN Get(get_extension(path)) ELSE <<>>

\* The key main looks the selected ROM up under.
RomExtension(path) ==
    to_lowercase(IF get_extension(path) # None THEN Get(get_extension(path))
                 ELSE <<>>)

-----------------------------------------------------------------------------
(* rom_launcher.rs: launch_rom *)

MAME == <<"m","a","m","e">>

RETROARCH == <<"r","e","t","r","o","a","r","c","h">>

CART_FLAG == <<"-","c","a","r","t">>

ROMPATH_FLAG == <<"-","r","o","m","p","a","t","h">>

L_FLAG == <<"-","L">>

\* The two checks on the emulator executable: the error returned, if any.
ExecutableCheck_ExistsOnly(kind) ==
    IF ~exists(kind) THEN Some("NotFound") ELSE None

ExecutableCheck(kind) ==
    IF ~exists(kind) THEN Some("NotFound")
    ELSE IF ~is_file(kind) THEN Some("InvalidInput")
    ELSE None

\* Which branch of the if / else if / else on the lowercased name is taken.
Convention_RetroArchFirst(emulator_name) ==
    LET emulator_name_lower == to_lowercase(emulator_name) IN
    IF contains(emulator_name_lower, RETROARCH) THEN "retroarch"
    ELSE IF contains(emulator_name_lower, MAME) THEN "mame"
    ELSE "generic"

Convention(emulator_name) ==
    LET emulator_name_lower == to_lowercase(emulator_name) IN
    IF contains(emulator_name_lower, MAME) THEN "mame"
    ELSE IF contains(emulator_name_lower, RETROARCH) THEN "retroarch"
    ELSE "generic"

\* A command as built so far: the error that ends the call before the spawn
\* (if any), the arguments added, the warnings printed.
Built(err, argv, warn) == [err |-> err, args |-> argv, warn |-> warn]

\* MAME for consoles
MameConsoleCommand(rom_path, sys_name) ==
    Built(None, <<sys_name, CART_FLAG, rom_path>>, {})

\* MAME for arcade
MameArcadeCommand_FullPath(rom_path) ==
    LET withParent ==
            IF parent(rom_path) # None
            THEN <<ROMPATH_FLAG, Get(parent(rom_path))>>
            ELSE <<>>
        warn == IF parent(rom_path) # None THEN {} ELSE {"no_parent_dir"}
    IN  Built(None, withParent \o <<rom_path>>, warn)

MameArcadeCommand(rom_path) ==
    LET withParent ==
            IF parent(rom_path) # None
            THEN <<ROMPATH_FLAG, Get(parent(rom_path))>>
            ELSE <<>>
        warn == IF parent(rom_path) # None THEN {} ELSE {"no_parent_dir"}
        rom_file_name == to_str(file_stem(rom_path))
    IN  IF rom_file_name # None
        THEN Built(None, withParent \o <<Get(rom_file_name)>>, warn)
        ELSE Built(Some("InvalidInput"), withParent, warn)

RetroArchCommand_CoreRequired(rom_path, core_path, core_kind) ==
    IF core_path # None
    THEN IF ~exists(core_kind) \/ ~is_file(core_kind)
         THEN Built(Some("NotFound"), <<>>, {"core_not_found"})
         ELSE Built(None, <<L_FLAG, Get(core_path), rom_path>>, {})
    ELSE Built(None, <<rom_path>>, {"no_core_path"})

RetroArchCommand(rom_path, core_path, core_kind) ==
    IF core_path # None
    THEN Built(None, <<L_FLAG, Get(core_path), rom_path>>,
               IF ~exists(core_kind) \/ ~is_file(core_kind)
               THEN {"core_not_found"} ELSE {})
    ELSE Built(None, <<rom_path>>, {"no_core_path"})

GenericCommand(rom_path) == Built(None, <<rom_path>>, {})

\* launch_rom up to the spawn.  c holds the five arguments and what the file
\* system answers for the executable and the core when asked.
BuildCommand(c) ==
    IF ExecutableCheck(c.exec_kind) # None
    THEN Built(ExecutableCheck(c.exec_kind), <<>>, {})
    ELSE IF Convention(c.emulator_name) = "mame"
    THEN IF c.system_name # None
         THEN MameConsoleCommand(c.rom_path, Get(c.system_name))
         ELSE MameArcadeCommand(c.rom_path)
    ELSE IF Convention(c.emulator_name) = "retroarch"
    THEN RetroArchCommand(c.rom_path, c.core_path, c.core_kind)
    ELSE GenericCommand(c.rom_path)

\* Command::spawn leaves stdout and stderr inherited unless piped, and
\* wait_with_output collects only piped streams.
StderrPiped == FALSE

CapturedStderr(written) == IF StderrPiped THEN written ELSE <<>>

\* An io::Error: its kind and the standard-error text its message holds.
Error(kind, stderr) == [kind |-> kind, stderr |-> stderr]

Ok == [kind |-> "Ok", stderr |-> None]

\* What launch_rom returns once wait_with_output has returned: its error,
\* or by the exit status of the process.
Outcome(waited) ==
    IF waited = None THEN Error("WaitFailed", None)
    ELSE IF Get(waited).status # 0 THEN Error("ProcessFailed", None)
    ELSE Ok

ExitStatuses == {0, 1}

StderrTexts == {<<>>, <<"e", "r", "r">>}

\* Where the caller stands while launch_rom waits for the process.
Blocked_NoWait(caller) == caller

Blocked(caller) == IF caller = "prompt" THEN "launching" ELSE "waiting"

\* A call of launch_rom from the place `caller` returns to: the checks and the
\* command, then the spawn, which may fail.
LaunchRom(c, caller) ==
    LET b == BuildCommand(c) IN
    /\ call' = Some(c)
    /\ warnings' = b.warn
    /\ exit' = None
    /\ IF b.err # None
       THEN /\ result' = Some(Error(Get(b.err), None))
            /\ args' = None
            /\ spawned' = 0
            /\ running' = running
            /\ pc' = caller
       ELSE \E spawn_ok \in BOOLEAN :
            /\ args' = Some(b.args)
            /\ IF spawn_ok
               THEN /\ spawned' = 1
                    /\ running' = running + 1
                    /\ result' = None
                    /\ pc' = Blocked(caller)
               ELSE /\ spawned' = 0
                    /\ running' = running
                    /\ result' = Some(Error("SpawnFailed", None))
                    /\ pc' = caller

\* What wait_with_output can return: an error, or the exit status with the
\* standard-error text collected, the process having written `written`.
WaitOutcomes ==
    {None} \cup
    {Some([status |-> status, written |-> written,
           captured |-> CapturedStderr(written)]) :
        status \in ExitStatuses, written \in StderrTexts}

\* The process ends and wait_with_output returns: the rest of launch_rom.
ProcessExit ==
    /\ pc \in {"launching", "waiting"}
    /\ \E waited \in WaitOutcomes :
        /\ running' = running - 1
        /\ exit' = waited
        /\ result' = Some(Outcome(waited))
        /\ pc' = IF pc = "launching" THEN "prompt" ELSE "returned"
    /\ UNCHANGED <<emulators, extension_to_emulator, roms, input, selected,
                   call, args, spawned, warnings>>

-----------------------------------------------------------------------------
(* The inputs of a session: configurations, directory walks, typed lines. *)

EXE == <<"/", "e">>

CORE == <<"/", "c">>

Emulator(name, extensions, core_path, system_name) ==
    [name |-> name, path |-> EXE, extensions |-> extensions,
     core_path |-> core_path, system_name |-> system_name]

EmulatorPool ==
    { Emulator(<<"M","A","M","E">>,
               << <<"z","i","p">>, <<"N","e","s">> >>, None, None),
      Emulator(<<"m","a","m","e">>,
               << <<"n","e","s">> >>, None, Some(<<"n","e","s">>)),
      Emulator(<<"R","e","t","r","o","A","r","c","h">>,
               << <<"N","E","S">>, <<"Z","I","P">> >>, Some(CORE), None),
      Emulator(<<"s","n","e","s","9","x">>,
               << <<"Z","i","p">> >>, None, None) }

SeqsUpTo(S, n) == UNION {[1..k -> S] : k \in 0..n}

\* What EmulatorConfig::load can return: an error, or the records of the file.
Configs == SeqsUpTo(EmulatorPool, MaxEmus)

\* The regular files the ROM directory may hold, in the order a walk meets
\* them.
DirectoryListing ==
    << <<"r","/","a",".","n","e","s">>,
       <<"r","/","e",".","t","x","t">>,
       <<"r","/","b",".","N","E","S">>,
       <<"r","/","f">>,
       <<"r","/","c",".","Z","i","p">> >>

\* The regular files a walk of the ROM directory yields, in the walk's order:
\* those of the listing that exist.
Walks ==
    {[i \in 1..Len(idx) |-> DirectoryListing[idx[i]]] :
        idx \in {w \in SeqsUpTo(DOMAIN DirectoryListing, MaxFiles) :
                    \A i, j \in DOMAIN w : i < j => w[i] < w[j]}}

InputLines ==
    { <<"q","\n">>, <<" ","Q"," ","\n">>, <<"l","\n">>,
      <<"0","\n">>, <<"1","\n">>, <<"2","\n">>, <<"3","\n">>, <<"4","\n">>,
      <<"+","1","\n">>, <<"x","\n">>, <<>>, <<BadByte,"\n">> }

PcValues ==
    {"start", "exited", "prompt", "launching", "quit", "failed",
     "call", "waiting", "returned"}

-----------------------------------------------------------------------------
(* main.rs *)

Init ==
    /\ pc = "start"
    /\ emulators = <<>>
    /\ extension_to_emulator = EmptyMap
    /\ roms = <<>>
    /\ input = None
    /\ selected = None
    /\ call = None
    /\ args = None
    /\ spawned = 0
    /\ running = 0
    /\ result = None
    /\ warnings = {}
    /\ exit = None

\* main up to the first prompt: load the configuration, build the extension
\* map, scan the ROM directory, show the list.
Startup ==
    /\ pc = "start"
    /\ \E loaded \in {None} \cup {Some(cfg) : cfg \in Configs},
          base_kind \in Kinds, walk \in Walks :
        IF loaded = None
        THEN /\ pc' = "exited"
             /\ UNCHANGED <<emulators, extension_to_emulator, roms>>
        ELSE /\ emulators' = Get(loaded)
             /\ extension_to_emulator' = BuildExtensionMap(Get(loaded))
             /\ LET scan == scan_roms(base_kind, walk) IN
                IF scan.err # None \/ scan.roms = <<>>
                THEN pc' = "exited" /\ roms' = <<>>
                ELSE pc' = "prompt" /\ roms' = scan.roms
    /\ UNCHANGED <<input, selected, call, args, spawned, running, result,
                   warnings, exit>>

\* HashMap::get
Lookup(map, key) == IF key \in DOMAIN map THEN Some(map[key]) ELSE None

NoLaunch ==
    /\ call' = None
    /\ args' = None
    /\ spawned' = 0
    /\ result' = None
    /\ warnings' = {}
    /\ exit' = None
    /\ running' = running

\* The arm of the match for a number in 1..=roms.len().
Select(num) ==
    LET selected_rom == roms[num]
        found == Lookup(extension_to_emulator, RomExtension(selected_rom))
    IN  /\ selected' = Some([rom |-> num, emu |-> found])
        /\ IF found # None
           THEN LET emulator == emulators[Get(found)] IN
                \E exec_kind \in Kinds,
                   core_kind \in (IF emulator.core_path = None
                                  THEN {"missing"} ELSE Kinds) :
                    LaunchRom([emulator_path |-> emulator.path,
                               exec_kind |-> exec_kind,
                               rom_path |-> selected_rom,
                               emulator_name |-> emulator.name,
                               core_path |-> emulator.core_path,
                               core_kind |-> core_kind,
                               system_name |-> emulator.system_name],
                              "prompt")
           ELSE pc' = "prompt" /\ NoLaunch

\* What the loop does with a line that was read.
Dispatch(line) ==
    LET trimmed == trim(line)
        num == parse_usize(trimmed)
    IN  IF eq_ignore_ascii_case(trimmed, <<"q">>)
        THEN pc' = "quit" /\ selected' = None /\ NoLaunch
        ELSE IF eq_ignore_ascii_case(trimmed, <<"l">>)
        THEN pc' = "prompt" /\ selected' = None /\ NoLaunch
        ELSE IF num # None /\ Get(num) > 0 /\ Get(num) <= Len(roms)
        THEN Select(Get(num))
        ELSE pc' = "prompt" /\ selected' = None /\ NoLaunch

\* What flushing the prompt and reading a line can come to: the flush fails,
\* or it succeeds and read_line is given nothing (an error) or a line.
IoOutcomes ==
    {[flush_ok |-> FALSE, read |-> None], [flush_ok |-> TRUE, read |-> None]}
        \cup {[flush_ok |-> TRUE, read |-> Some(line)] : line \in InputLines}

\* One turn of the loop: the prompt is flushed, a line is read, the command
\* is carried out up to the point where main returns or waits.
Iteration ==
    /\ pc = "prompt"
    /\ \E io \in IoOutcomes :
        /\ input' = io.read
        /\ IF ~io.flush_ok \/ io.read = None \/ ~IsUtf8(Get(io.read))
           THEN pc' = "failed" /\ selected' = None /\ NoLaunch
           ELSE Dispatch(Get(io.read))
    /\ UNCHANGED <<emulators, extension_to_emulator, roms>>

Next == Startup \/ Iteration \/ ProcessExit

Spec == Init /\ [][Next]_vars

-----------------------------------------------------------------------------
(* launch_rom called on its own, with any arguments. *)

NameParts ==
    { <<>>, <<"M","a","M","e">>, <<"R","e","t","r","o","A","r","c","h">>,
      <<"m","a","m">> }

Names == {a \o b : a \in NameParts, b \in NameParts}

PathAlphabet == {"/", ".", "a", BadByte}

Paths == SeqsUpTo(PathAlphabet, MaxPathLen)

Calls ==
    {c \in [emulator_path : {EXE}, exec_kind : Kinds, rom_path : Paths,
            emulator_name : Names, core_path : {None, Some(CORE)},
            core_kind : Kinds, system_name : {None, Some(<<"n","e","s">>)}] :
        c.core_path = None => c.core_kind = "missing"}

InitLaunch ==
    /\ pc = "call"
    /\ emulators = <<>>
    /\ extension_to_emulator = EmptyMap
    /\ roms = <<>>
    /\ input = None
    /\ selected = None
    /\ call \in {Some(c) : c \in Calls}
    /\ args = None
    /\ spawned = 0
    /\ running = 0
    /\ result = None
    /\ warnings = {}
    /\ exit = None

CallLaunch ==
    /\ pc = "call"
    /\ LaunchRom(Get(call), "returned")
    /\ UNCHANGED <<emulators, extension_to_emulator, roms, input, selected>>

NextLaunch == CallLaunch \/ ProcessExit

SpecLaunch == InitLaunch /\ [][NextLaunch]_vars

-----------------------------------------------------------------------------
(* Properties.  `Made` is the launch_rom call last made, once it has got    *)
(* past its checks and its command: it has returned or waits.               *)

Made == call # None /\ pc # "call"

TheCall == Get(call)

ExecutableIsFile == exists(TheCall.exec_kind) /\ is_file(TheCall.exec_kind)

NameHas(word) == contains(to_lowercase(TheCall.emulator_name), word)

Stem == to_str(file_stem(TheCall.rom_path))

ResultIs(kind) == result # None /\ Get(result).kind = kind

NothingSpawned == args = None /\ spawned = 0 /\ running = 0 /\ exit = None

\* The argument vector section 4.3 gives for a call whose ROM path has a
\* parent directory and a file stem.
ContractVector ==
    IF NameHas(MAME)
    THEN IF TheCall.system_name # None
         THEN <<Get(TheCall.system_name), CART_FLAG, TheCall.rom_path>>
         ELSE <<ROMPATH_FLAG, Get(parent(TheCall.rom_path)), Get(Stem)>>
    ELSE IF NameHas(RETROARCH) /\ TheCall.core_path # None
    THEN <<L_FLAG, Get(TheCall.core_path), TheCall.rom_path>>
    ELSE <<TheCall.rom_path>>

\* C1: when the executable passes the checks and the ROM path has both a
\* parent directory and a file stem, the argument vector given to the process
\* is exactly the one of the convention: [system, "-cart", rom] or
\* ["-rompath", parent, stem] for MAME, ["-L", core, rom] or [rom] for
\* RetroArch, [rom] otherwise, and nothing else.
C1_ArgumentVector ==
    (/\ Made
     /\ ExecutableIsFile
     /\ parent(TheCall.rom_path) # None
     /\ Stem # None)
    => args = Some(ContractVector)

C1_Witness ==
    /\ Made
    /\ ExecutableIsFile
    /\ NameHas(MAME)
    /\ TheCall.system_name = None
    /\ TheCall.rom_path = <<"/", "a", ".", "a">>
    /\ args = Some(<<ROMPATH_FLAG, <<"/">>, <<"a">>>>)
    /\ ResultIs("Ok")

\* The shape of a MAME command line for the call: console or arcade.
MameShaped(argv) ==
    IF TheCall.system_name # None
    THEN argv = <<Get(TheCall.system_name), CART_FLAG, TheCall.rom_path>>
    ELSE /\ Stem # None
         /\ argv \in { <<ROMPATH_FLAG, dir, Get(Stem)>> : dir \in parent(TheCall.rom_path) }
                       \cup { <<Get(Stem)>> }

\* C2: a record whose name contains both "mame" and "retroarch", in any
\* letter case and either order, is launched with the MAME convention and
\* never with the RetroArch one, even when core_path is set.
C2_MameBeforeRetroArch ==
    (Made /\ ExecutableIsFile /\ NameHas(MAME) /\ NameHas(RETROARCH))
    => /\ args # None => MameShaped(Get(args))
       /\ args = None => ResultIs("InvalidInput") /\ Stem = None
       /\ TheCall.core_path # None
            => args # Some(<<L_FLAG, Get(TheCall.core_path), TheCall.rom_path>>)
       /\ warnings \cap {"core_not_found", "no_core_path"} = {}

C2_Witness ==
    /\ Made
    /\ ExecutableIsFile
    /\ contains(TheCall.emulator_name, <<"R","e","t","r","o","A","r","c","h","M","a","M","e">>)
    /\ TheCall.core_path # None
    /\ TheCall.system_name = None
    /\ args # None
    /\ Get(args)[1] = ROMPATH_FLAG
    /\ ResultIs("Ok")

\* The records that declare an extension equal to ext but for letter case.
Declaring(ext) ==
    {i \in DOMAIN emulators :
        \E j \in DOMAIN emulators[i].extensions :
            eq_ignore_ascii_case(emulators[i].extensions[j], ext)}

First(S) == CHOOSE i \in S : \A k \in S : i <= k

FirstDeclaring(ext) ==
    IF Declaring(ext) = {} THEN None ELSE Some(First(Declaring(ext)))

DeclaredLower ==
    UNION {{to_lowercase(emulators[i].extensions[j]) :
                j \in DOMAIN emulators[i].extensions} : i \in DOMAIN emulators}

FirstWins ==
    /\ DOMAIN extension_to_emulator = DeclaredLower
    /\ \A ext \in DeclaredLower :
           Some(extension_to_emulator[ext]) = FirstDeclaring(ext)

\* C3: the extension map built at startup maps each lowercased extension to
\* the first record, in registration order, that declares it, whatever later
\* records declare; and no step after startup (list, select, quit, a launch
\* that succeeds or fails) changes the map.
C3_FirstRegisteredWins ==
    /\ [](pc # "start" => FirstWins)
    /\ [][pc # "start" => extension_to_emulator' = extension_to_emulator]_vars

C3_Witness ==
    /\ pc = "prompt"
    /\ ResultIs("ProcessFailed")
    /\ Len(emulators) = 2
    /\ emulators[1] # emulators[2]
    /\ \E ext \in DeclaredLower :
           Declaring(ext) = {1, 2} /\ extension_to_emulator[ext] = 1

\* C4: whatever the letter case of the extension a record declares and of the
\* extension of the ROM file, selecting the ROM resolves to the first record
\* declaring that extension; records declaring one extension in different
\* letter cases share one map entry.
C4_CaseInsensitiveLookup ==
    /\ selected # None =>
           LET ext == get_extension(roms[Get(selected).rom]) IN
           /\ ext # None
           /\ Get(selected).emu = FirstDeclaring(Get(ext))
    /\ pc # "start" =>
           \A i, k \in DOMAIN emulators :
               \A j \in DOMAIN emulators[i].extensions,
                  l \in DOMAIN emulators[k].extensions :
                   eq_ignore_ascii_case(emulators[i].extensions[j],
                                        emulators[k].extensions[l])
                   => /\ to_lowercase(emulators[i].extensions[j])
                             \in DOMAIN extension_to_emulator
                      /\ to_lowercase(emulators[i].extensions[j])
                             = to_lowercase(emulators[k].extensions[l])

C4_Witness ==
    /\ selected # None
    /\ roms[Get(selected).rom] = <<"r","/","b",".","N","E","S">>
    /\ Get(selected).emu = Some(1)
    /\ Len(emulators) = 2
    /\ emulators[1].extensions = << <<"z","i","p">>, <<"N","e","s">> >>
    /\ emulators[2].extensions = << <<"N","E","S">>, <<"Z","I","P">> >>
    /\ ResultIs("Ok")

\* C5: a launch_rom call that fails a check made before the spawn returns its
\* error with no process started: NotFound for an executable path that does
\* not exist, InvalidInput for one that exists and is not a regular file,
\* InvalidInput for a ROM path with no file stem in MAME arcade mode.
C5_NoSpawnOnCheckFailure ==
    Made =>
        /\ ~exists(TheCall.exec_kind)
              => ResultIs("NotFound") /\ NothingSpawned
        /\ exists(TheCall.exec_kind) /\ ~is_file(TheCall.exec_kind)
              => ResultIs("InvalidInput") /\ NothingSpawned
        /\ (/\ ExecutableIsFile
            /\ NameHas(MAME)
            /\ TheCall.system_name = None
            /\ Stem = None)
              => ResultIs("InvalidInput") /\ NothingSpawned

C5_Witness ==
    /\ Made
    /\ ExecutableIsFile
    /\ NameHas(MAME)
    /\ TheCall.system_name = None
    /\ TheCall.rom_path = <<"a", "/", ".", ".">>
    /\ ResultIs("InvalidInput")
    /\ NothingSpawned

\* C6: launch_rom succeeds only when the process exits with status zero; for
\* any other status it returns a ProcessFailed error, and that error carries
\* the standard-error text the process wrote, whenever it wrote any.
C6_ProcessFailedCarriesStderr ==
    (Made /\ exit # None) =>
        /\ ResultIs("Ok") <=> Get(exit).status = 0
        /\ Get(exit).status # 0 =>
              /\ ResultIs("ProcessFailed")
              /\ Get(exit).written # <<>>
                    => Get(result).stderr = Some(Get(exit).written)

\* C7: a launch_rom call starts at most one process, a failed process is not
\* started again, and the call does not return before the process has ended:
\* at most one emulator process runs at any time, and none while the
\* selection loop prompts.
C7_OneProcessAndBlocking ==
    /\ running <= 1
    /\ spawned <= 1
    /\ running = 1 <=> pc = "launching"
    /\ pc \in {"prompt", "quit", "failed", "exited"} => running = 0
    /\ (pc = "prompt" /\ (exit # None \/ ResultIs("WaitFailed")))
          => spawned = 1

C7_Witness ==
    /\ pc = "prompt"
    /\ ResultIs("ProcessFailed")
    /\ Get(exit).status = 1
    /\ spawned = 1
    /\ running = 0

\* A ROM path with no parent directory component: parent() is None, or the
\* empty path (nothing stands before the file name).
NoParentDirectory(path) == parent(path) = None \/ parent(path) = Some(<<>>)

\* C8: in MAME arcade mode, for a ROM path with no parent directory
\* component, launch_rom prints a warning, leaves "-rompath" and its value
\* out, does not fail for that reason, and starts the process with the file
\* stem as its only argument.
C8_NoParentStillLaunches ==
    (/\ Made
     /\ ExecutableIsFile
     /\ NameHas(MAME)
     /\ TheCall.system_name = None
     /\ NoParentDirectory(TheCall.rom_path))
    => /\ "no_parent_dir" \in warnings
       /\ Stem # None
       /\ args = Some(<<Get(Stem)>>)

\* C9: in RetroArch mode with a core path set, a core that does not exist or
\* is not a regular file never ends the call before the spawn: the process is
\* given ["-L", core, rom] and only its exit status decides the result.
C9_BadCoreStillLaunches ==
    (/\ Made
     /\ ExecutableIsFile
     /\ ~NameHas(MAME)
     /\ NameHas(RETROARCH)
     /\ TheCall.core_path # None
     /\ ~(exists(TheCall.core_kind) /\ is_file(TheCall.core_kind)))
    => /\ args = Some(<<L_FLAG, Get(TheCall.core_path), TheCall.rom_path>>)
       /\ ~ResultIs("NotFound")
       /\ ~ResultIs("InvalidInput")
       /\ exit # None =>
             /\ Get(exit).status = 0 => ResultIs("Ok")
             /\ Get(exit).status # 0 => ResultIs("ProcessFailed")

C9_Witness ==
    /\ Made
    /\ ExecutableIsFile
    /\ ~NameHas(MAME)
    /\ NameHas(RETROARCH)
    /\ TheCall.core_path # None
    /\ TheCall.core_kind = "missing"
    /\ "core_not_found" \in warnings
    /\ exit # None
    /\ Get(exit).status = 0
    /\ ResultIs("Ok")

\* The line read is the quit command.
IsQuit(line) == IsUtf8(line) /\ eq_ignore_ascii_case(trim(line), <<"q">>)

\* C10: once startup has succeeded nothing but the quit command ends the
\* session: after a launch that fails in any way, after a selection with no
\* emulator configured, and after any line that is not a number in
\* 1..=roms.len(), "l" or "q", the loop prompts again; and a launch is made
\* only for a number in 1..=roms.len(), on the catalog entry at index - 1.
C10_OnlyQuitEndsTheSession ==
    /\ (input # None /\ ~IsQuit(Get(input))) => pc \in {"prompt", "launching"}
    /\ pc = "quit" => input # None /\ IsQuit(Get(input))
    /\ (pc \in {"prompt", "launching", "quit", "failed"} /\ call # None)
          => /\ selected # None
             /\ Get(selected).rom \in 1..Len(roms)
             /\ parse_usize(trim(Get(input))) = Some(Get(selected).rom)
             /\ TheCall.rom_path = roms[Get(selected).rom]

=============================================================================
